---- MODULE Spec2Model ----
(***************************************************************************)
(* av-organizer (src/index.js): scan the working directory, extract one    *)
(* descriptor per eligible file, group the descriptors by the name before  *)
(* the first dot, reduce each group to one type and one date, and (with    *)
(* the "move" command) create <CWD>/<Type>/<date> and rename the files.    *)
(*                                                                         *)
(* Strings are sequences of one-character strings, so that split, shift,   *)
(* pop, substring and the default Array.prototype.sort comparison are      *)
(* computed character by character.  A path is a sequence of components.   *)
(* A Date is its number of hours since 1970-01-01T00:00Z; the local time   *)
(* zone of the process is taken to be UTC.                                 *)
(*                                                                         *)
(* Every await of the program is a point where the pending operations may  *)
(* complete in any order, and every operation on the file system may fail. *)
(* A rejection of main is handled nowhere: the runtime either ends the     *)
(* process at once with code 1 or only warns and exits with code 0 once    *)
(* nothing is pending; both are modelled.  The directory holds no name     *)
(* whose group key is an integer or a property of Object.prototype.        *)
(*                                                                         *)
(* Spec runs the program on directories of media files, ignored names and  *)
(* a directory left by an earlier run, in every order readdir may list     *)
(* them; SpecTypes runs it on directories of image, video, audio, text,    *)
(* application and unknown files.                                          *)
(***************************************************************************)
EXTENDS Integers, Sequences, FiniteSets, TLC

(***************************************************************************)
(* Bounds of the model.                                                    *)
(***************************************************************************)
\* Largest number of entries of the working directory.
MaxEntries == 3
\* Largest number of runs of the program on the same working directory.
MaxRuns == 2
\* Largest number of entries of a working directory of TypeListings.
MaxTypeEntries == 4

(***************************************************************************)
(* String helpers (String.prototype.split, Array.prototype.shift / pop,    *)
(* String.prototype.substring, path.basename, path.join).                  *)
(***************************************************************************)
RECURSIVE SplitAcc(_, _, _)
SplitAcc(s, sep, cur) ==
  IF s = <<>> THEN <<cur>>
  ELSE IF Head(s) = sep THEN <<cur>> \o SplitAcc(Tail(s), sep, <<>>)
  ELSE SplitAcc(Tail(s), sep, Append(cur, Head(s)))

\* s.split(sep) for a one-character separator: always at least one segment.
Split(s, sep) == SplitAcc(s, sep, <<>>)

\* s.substring(0, n)
Substring0(s, n) == SubSeq(s, 1, IF n < Len(s) THEN n ELSE Len(s))

\* path.basename(p): the last component of the path.
Basename(p) == p[Len(p)]

\* path.join(dir, name)
Join(dir, name) == Append(dir, name)

\* process.cwd()
CWD == << <<"c", "w", "d">> >>

(***************************************************************************)
(* Dates: Date.prototype.toISOString, Date.prototype.toString and the      *)
(* code-unit order that the default sort compares strings by.              *)
(***************************************************************************)
Digits == <<"0", "1", "2", "3", "4", "5", "6", "7", "8", "9">>
Pad2(n) == <<Digits[((n \div 10) % 10) + 1], Digits[(n % 10) + 1]>>
Pad4(n) == Pad2(n \div 100) \o Pad2(n % 100)

DayOf(h) == h \div 24
HourOf(h) == h % 24

\* Civil date of a day number (days since 1970-01-01), proleptic Gregorian.
Civil(days) ==
  LET z == days + 719468
      era == z \div 146097
      doe == z - era * 146097
      yoe == (doe - doe \div 1460 + doe \div 36524 - doe \div 146096) \div 365
      doy == doe - (365 * yoe + yoe \div 4 - yoe \div 100)
      mp == (5 * doy + 2) \div 153
      d == doy - (153 * mp + 2) \div 5 + 1
      m == IF mp < 10 THEN mp + 3 ELSE mp - 9
      y == yoe + era * 400 + (IF m <= 2 THEN 1 ELSE 0)
  IN [year |-> y, month |-> m, day |-> d]

\* 1970-01-01 was a Thursday; 0 is Sunday.
WeekDay(days) == (days + 4) % 7

DayNames == << <<"S","u","n">>, <<"M","o","n">>, <<"T","u","e">>, <<"W","e","d">>,
               <<"T","h","u">>, <<"F","r","i">>, <<"S","a","t">> >>
MonthNames == << <<"J","a","n">>, <<"F","e","b">>, <<"M","a","r">>, <<"A","p","r">>,
                 <<"M","a","y">>, <<"J","u","n">>, <<"J","u","l">>, <<"A","u","g">>,
                 <<"S","e","p">>, <<"O","c","t">>, <<"N","o","v">>, <<"D","e","c">> >>

\* date.toISOString(): "YYYY-MM-DDTHH:00:00.000Z"
ToISOString(h) ==
  LET c == Civil(DayOf(h))
  IN Pad4(c.year) \o <<"-">> \o Pad2(c.month) \o <<"-">> \o Pad2(c.day)
     \o <<"T">> \o Pad2(HourOf(h))
     \o <<":", "0", "0", ":", "0", "0", ".", "0", "0", "0", "Z">>

\* String(date): "Thu Apr 20 2023 23:00:00 GMT+0000 (Coordinated Universal Time)";
\* the zone suffix is the same for every date and is left out.
DateToString(h) ==
  LET c == Civil(DayOf(h))
  IN DayNames[WeekDay(DayOf(h)) + 1] \o <<" ">> \o MonthNames[c.month] \o <<" ">>
     \o Pad2(c.day) \o <<" ">> \o Pad4(c.year) \o <<" ">> \o Pad2(HourOf(h))
     \o <<":", "0", "0", ":", "0", "0">>

\* The characters of the model in UTF-16 code-unit order.
CodeUnits == <<" ", "-", ".", "0", "1", "2", "3", "4", "5", "6", "7", "8", "9", ":",
               "A", "B", "C", "D", "E", "F", "G", "H", "I", "J", "K", "L", "M",
               "N", "O", "P", "Q", "R", "S", "T", "U", "V", "W", "X", "Y", "Z", "_",
               "a", "b", "c", "d", "e", "f", "g", "h", "i", "j", "k", "l", "m",
               "n", "o", "p", "q", "r", "s", "t", "u", "v", "w", "x", "y", "z">>
CodeUnit(c) == CHOOSE i \in 1..Len(CodeUnits) : CodeUnits[i] = c

\* x < y for two strings, as the default sort comparator decides it.
RECURSIVE StringLess(_, _)
StringLess(x, y) ==
  IF y = <<>> THEN FALSE
  ELSE IF x = <<>> THEN TRUE
  ELSE IF Head(x) = Head(y) THEN StringLess(Tail(x), Tail(y))
  ELSE CodeUnit(Head(x)) < CodeUnit(Head(y))

\* array.sort() with no comparator, on an array of Dates: a stable sort by
\* the string each element converts to.
RECURSIVE InsertByString(_, _)
InsertByString(sorted, d) ==
  IF sorted = <<>> THEN <<d>>
  ELSE IF StringLess(DateToString(d), DateToString(Head(sorted)))
       THEN <<d>> \o sorted
       ELSE <<Head(sorted)>> \o InsertByString(Tail(sorted), d)

RECURSIVE SortDefault(_)
SortDefault(a) ==
  IF a = <<>> THEN <<>>
  ELSE InsertByString(SortDefault(SubSeq(a, 1, Len(a) - 1)), a[Len(a)])

(***************************************************************************)
(* The entries a working directory is drawn from.  Every entry has the     *)
(* attributes the program reads: whether it is a directory, its mtime and  *)
(* ctime, and the DateTimeOriginal of its EXIF block when it has one.      *)
(***************************************************************************)
Null == <<"null">>
Undefined == <<"undefined">>
\* fileTakenAt = null
NullDate == -1

DSC1 == <<"D", "S", "C", "0", "0", "0", "1">>
\* DSC0001.edited.jpg, DSC0001.mp4 and DSC0001: one group, with two dots,
\* one dot and no dot after the key.
N_jpg == DSC1 \o <<".", "e", "d", "i", "t", "e", "d", ".", "j", "p", "g">>
N_mp4 == DSC1 \o <<".", "m", "p", "4">>
N_raw == DSC1
\* .clip.mp4: a name with a leading dot that is not ignored, a group of
\* its own.
N_clip == <<".", "c", "l", "i", "p", ".", "m", "p", "4">>
N_dsstore == <<".", "D", "S", "_", "S", "t", "o", "r", "e">>
N_appledouble == <<".", "_">> \o N_jpg
N_videodir == <<"V", "i", "d", "e", "o">>
\* DSC0001.txt, scan.pdf and memo.mp3: a text, an application and an audio
\* file, the first a member of the group DSC0001.
N_txt == DSC1 \o <<".", "t", "x", "t">>
N_pdf == <<"s", "c", "a", "n", ".", "p", "d", "f">>
N_mp3 == <<"m", "e", "m", "o", ".", "m", "p", "3">>

Universe == {N_jpg, N_mp4, N_raw, N_clip, N_dsstore, N_appledouble, N_videodir}

\* Hours since the epoch of 2023-04-20, 2023-05-01 and 2023-05-03 at 00:00Z.
Apr20 == 19467 * 24
May01 == 19478 * 24
May03 == 19480 * 24

\* fs.statSync(p).isDirectory() of an entry as the directory is first found.
IsDirEntry(name) == name = N_videodir

\* The directories an entry brings with it: a directory of the universe is
\* the Video directory an earlier run left, with one date directory in it.
SubDirsOf(name) ==
  IF IsDirEntry(name)
  THEN {Join(CWD, name), Join(Join(CWD, name), <<"2", "0", "2", "3", "-", "0", "4", "-", "2", "0">>)}
  ELSE {}

\* fileStat.mtime
MTimeOf(name) ==
  CASE name = N_jpg -> May03 + 12
    [] name = N_mp4 -> Apr20 + 23
    [] name = N_raw -> May03 + 8
    [] name = N_clip -> May01 + 1
    [] OTHER -> May01

\* fileStat.ctime
CTimeOf(name) == MTimeOf(name) + 1

\* exifData.DateTimeOriginal || null
ExifOriginalOf(name) ==
  CASE name = N_jpg -> May01 + 10
    [] OTHER -> NullDate

(***************************************************************************)
(* mime.getType(path) and the descriptor of getFileInfo.                   *)
(***************************************************************************)
MimeTable(ext) ==
  CASE ext = <<"j", "p", "g">> -> <<"i", "m", "a", "g", "e", "/", "j", "p", "e", "g">>
    [] ext = <<"m", "p", "4">> -> <<"v", "i", "d", "e", "o", "/", "m", "p", "4">>
    [] ext = <<"m", "p", "3">> -> <<"a", "u", "d", "i", "o", "/", "m", "p", "e", "g">>
    [] ext = <<"t", "x", "t">> -> <<"t", "e", "x", "t", "/", "p", "l", "a", "i", "n">>
    [] ext = <<"p", "d", "f">> -> <<"a", "p", "p", "l", "i", "c", "a", "t", "i", "o", "n", "/", "p", "d", "f">>
    [] OTHER -> Null

\* mime.getType: the type of the text after the last dot, and null when the
\* name has no dot or only a leading one.
MimeGetType(filePath) ==
  LET last == Basename(filePath)
      segs == Split(last, ".")
      ext == segs[Len(segs)]
      hasDot == Len(ext) < Len(last) - 1
  IN IF hasDot THEN MimeTable(ext) ELSE Null

Image == <<"i", "m", "a", "g", "e">>
Audio == <<"a", "u", "d", "i", "o">>
Video == <<"v", "i", "d", "e", "o">>
Other == <<"o", "t", "h", "e", "r">>
ImageJpeg == <<"i", "m", "a", "g", "e", "/", "j", "p", "e", "g">>
ImageTiff == <<"i", "m", "a", "g", "e", "/", "t", "i", "f", "f">>

\* mimeType?.split('/').shift()
BaseType(mimeType) ==
  IF mimeType = Null THEN Undefined ELSE Head(Split(mimeType, "/"))

\* Variant of GroupName: the name up to its last dot, as path.parse would
\* give it.
GroupNameLast(filePath) ==
  LET last == Basename(filePath)
      segs == Split(last, ".")
  IN IF Len(segs) = 1 THEN last
     ELSE SubSeq(last, 1, Len(last) - Len(segs[Len(segs)]) - 1)
\* splitName.shift(): the group name of a file.
GroupName(filePath) == Head(Split(Basename(filePath), "."))

\* splitName.pop(), after the shift.
ExtensionOf(filePath) ==
  LET rest == Tail(Split(Basename(filePath), "."))
  IN IF rest = <<>> THEN Undefined ELSE rest[Len(rest)]

\* fileTakenAt: the EXIF block is read for image/jpeg and image/tiff only.
TakenAt(filePath) ==
  IF MimeGetType(filePath) \in {ImageJpeg, ImageTiff}
  THEN ExifOriginalOf(Basename(filePath))
  ELSE NullDate

\* The value getFileInfo resolves to.
GetFileInfo(filePath) ==
  [ name |-> GroupName(filePath),
    basename |-> Basename(filePath),
    extension |-> ExtensionOf(filePath),
    path |-> filePath,
    mime |-> MimeGetType(filePath),
    type |-> BaseType(MimeGetType(filePath)),
    takenAt |-> TakenAt(filePath),
    createdAt |-> CTimeOf(Basename(filePath)),
    modifiedAt |-> MTimeOf(Basename(filePath)) ]

(***************************************************************************)
(* Grouping, reduction and planning (main, lines 95-145).                  *)
(***************************************************************************)
\* Position of the group called name in the files object, 0 when absent.
\* Variant of GroupIndex: the key is never found.
GroupIndexNone(files, name) == 0
GroupIndex(files, name) ==
  IF \E k \in 1..Len(files) : files[k].name = name
  THEN CHOOSE k \in 1..Len(files) : files[k].name = name
  ELSE 0

\* Variant of AddToGroup: the list of the group is replaced, not pushed to.
AddToGroupReplace(files, fileInfo) ==
  LET k == GroupIndex(files, fileInfo.name)
  IN IF k = 0
     THEN Append(files, [name |-> fileInfo.name, fileInfos |-> <<fileInfo>>])
     ELSE [files EXCEPT ![k].fileInfos = <<fileInfo>>]
\* files[fileInfo.name].push(fileInfo), creating the list first when absent.
AddToGroup(files, fileInfo) ==
  LET k == GroupIndex(files, fileInfo.name)
  IN IF k = 0
     THEN Append(files, [name |-> fileInfo.name, fileInfos |-> <<fileInfo>>])
     ELSE [files EXCEPT ![k].fileInfos = Append(@, fileInfo)]

\* baseFilesInfo.forEach(...): the files object, its keys in insertion order.
RECURSIVE GroupFiles(_)
GroupFiles(infos) ==
  IF infos = <<>> THEN <<>>
  ELSE AddToGroup(GroupFiles(SubSeq(infos, 1, Len(infos) - 1)), infos[Len(infos)])

IsMediaType(fileInfo) == fileInfo.type \in {Image, Audio, Video}

\* Variant of GroupType: the filter on the media types is left out.
GroupTypeUnfiltered(fileInfos) ==
  IF Head(fileInfos).type = Undefined THEN Other ELSE Head(fileInfos).type
\* Variant of GroupType: pop() in place of shift().
GroupTypeLast(fileInfos) ==
  LET media == SelectSeq(fileInfos, IsMediaType)
  IN IF media = <<>> THEN Other ELSE media[Len(media)].type
\* The group's main file type, "other" when no member has one.
GroupType(fileInfos) ==
  LET media == SelectSeq(fileInfos, IsMediaType)
  IN IF media = <<>> THEN Other ELSE Head(media).type

\* fileInfo.takenAt || fileInfo.modifiedAt
EffectiveDate(fileInfo) ==
  IF fileInfo.takenAt # NullDate THEN fileInfo.takenAt ELSE fileInfo.modifiedAt

\* The group's date: map, sort with the default comparator, shift.
GroupDate(fileInfos) ==
  Head(SortDefault([i \in 1..Len(fileInfos) |-> EffectiveDate(fileInfos[i])]))

\* groupDate.toISOString().split('T').shift()
DateString(groupDate) == Head(Split(ToISOString(groupDate), "T"))

\* Position of a key in an object kept as a sequence of records, 0 when absent.
TypeIndex(perType, type) ==
  IF \E k \in 1..Len(perType) : perType[k].type = type
  THEN CHOOSE k \in 1..Len(perType) : perType[k].type = type
  ELSE 0
DateIndex(dates, date) ==
  IF \E k \in 1..Len(dates) : dates[k].date = date
  THEN CHOOSE k \in 1..Len(dates) : dates[k].date = date
  ELSE 0

\* filesPerTypeAndDate[groupType][dateString].push(...fileInfos), creating
\* the two levels first when absent.
AddToListing(perType, type, date, fileInfos) ==
  LET withType == IF TypeIndex(perType, type) = 0
                  THEN Append(perType, [type |-> type, dates |-> <<>>])
                  ELSE perType
      t == TypeIndex(withType, type)
      dates == withType[t].dates
      withDate == IF DateIndex(dates, date) = 0
                  THEN Append(dates, [date |-> date, fileInfos |-> <<>>])
                  ELSE dates
      d == DateIndex(withDate, date)
  IN [withType EXCEPT ![t].dates =
        [withDate EXCEPT ![d].fileInfos = @ \o fileInfos]]

\* The loop over the groups (lines 110-145): filesPerTypeAndDate after the
\* first n groups.
RECURSIVE ListingOf(_, _)
ListingOf(files, n) ==
  IF n = 0 THEN <<>>
  ELSE AddToListing(ListingOf(files, n - 1),
                    GroupType(files[n].fileInfos),
                    DateString(GroupDate(files[n].fileInfos)),
                    files[n].fileInfos)

\* The rows of the information table of one group.
GroupRows(fileInfos) ==
  [i \in 1..Len(fileInfos) |->
     [File |-> fileInfos[i].basename,
      Class |-> GroupType(fileInfos),
      Date |-> DateString(GroupDate(fileInfos))]]

\* filesForInformation after the first n groups.
RECURSIVE InformationOf(_, _)
InformationOf(files, n) ==
  IF n = 0 THEN <<>>
  ELSE InformationOf(files, n - 1) \o GroupRows(files[n].fileInfos)

\* typeDirNames[type] || 'Other'
TypeDirName(type) ==
  CASE type = Image -> <<"I", "m", "a", "g", "e">>
    [] type = Video -> <<"V", "i", "d", "e", "o">>
    [] type = Audio -> <<"A", "u", "d", "i", "o">>
    [] OTHER -> <<"O", "t", "h", "e", "r">>

\* dirType and dirDate of the move loop.
DirType(type) == Join(CWD, TypeDirName(type))
DirDate(type, date) == Join(DirType(type), date)

(***************************************************************************)
(* Eligibility (isValidFile).                                              *)
(***************************************************************************)
IgnoredNames == {N_dsstore}

(***************************************************************************)
(* State.                                                                  *)
(***************************************************************************)
VARIABLES
  command,              \* process.argv[2]: "move" or "" (no command)
  listing,              \* fs: the names readdir(CWD) returns, in its order
  dirs,                 \* fs: the paths that are directories
  moved,                \* fs: the files below the type directories
  pc,                   \* main: "start", "extract", "mkdirTypes", "moving",
                        \*       "returned" or "rejected"
  baseFiles,            \* the eligible paths, in scan order
  extPc,                \* getFileInfo of baseFiles[i]: "stat", "done", "failed"
  doneOrder,            \* the indices of the resolved getFileInfo calls, in
                        \* the order they resolved, kept up to the first
                        \* step after the grouping
  files,                \* the groups, in key order
  filesPerTypeAndDate,  \* type -> date -> file descriptors
  filesForInformation,  \* the rows of the printed table
  mkType,               \* mkdir of the k-th type directory: "inflight", "done", "failed"
  typeIdx,              \* the type the move loop is at
  tasks,                \* the per-date tasks of that type: [pc, idx]
  renamed,              \* path -> number of renames of it that succeeded
  renameFailed,         \* the paths whose rename failed
  progress,             \* the progress bar: [state, total, value]
  exit,                 \* "running", or the exit code "0" or "1"
  run,                  \* the number of the run
  prev                  \* the command and the plan of the run before, and
                        \* the moved files it left

vars == <<command, listing, dirs, moved, pc, baseFiles, extPc, doneOrder, files,
          filesPerTypeAndDate, filesForInformation, mkType, typeIdx, tasks,
          renamed, renameFailed, progress, exit, run, prev>>

fsVars == <<listing, dirs, moved>>
planVars == <<files, filesPerTypeAndDate, filesForInformation>>
moveVars == <<mkType, typeIdx, tasks, renamed, renameFailed>>
runVars == <<run, prev>>

\* fs.existsSync(path)
ExistsSync(path) ==
  \/ path \in dirs
  \/ path \in moved
  \/ \E i \in 1..Len(listing) : path = Join(CWD, listing[i])

\* Variants of IsValidFile: without the test of the "._" prefix, and without
\* the test for directories.
IsValidFileNoPrefix(filePath) ==
  /\ Basename(filePath) \notin IgnoredNames
  /\ filePath \notin dirs
IsValidFileDirs(filePath) ==
  ~ \/ Substring0(Basename(filePath), 2) = <<".", "_">>
    \/ Basename(filePath) \in IgnoredNames
\* isValidFile(filePath)
IsValidFile(filePath) ==
  /\ ~ \/ Substring0(Basename(filePath), 2) = <<".", "_">>
       \/ Basename(filePath) \in IgnoredNames
  /\ filePath \notin dirs

\* readdir(CWD).map(join).filter(isValidFile)
ScanOf(names) ==
  SelectSeq([i \in 1..Len(names) |-> Join(CWD, names[i])], IsValidFile)

\* All sequences of distinct entries of the universe, up to n long: the
\* contents of a directory, in the order readdir lists them.
RECURSIVE Listings(_)
Listings(n) ==
  IF n = 0 THEN {<<>>}
  ELSE LET shorter == Listings(n - 1)
           longest == {l \in shorter : Len(l) = n - 1}
           fresh == {p \in longest \X Universe :
                       \A i \in 1..Len(p[1]) : p[1][i] # p[2]}
       IN shorter \cup {Append(p[1], p[2]) : p \in fresh}

Commands == {"", "move"}

\* A directory of files of every kind of type: image, video, audio, text,
\* application and unknown, listed in this order.
TypeEntries == <<N_jpg, N_clip, N_mp3, N_txt, N_pdf, N_raw>>

\* The entries of a sequence at the positions of a set, in their order.
SubSeqAt(entries, positions) ==
  LET upTo[i \in 0..Len(entries)] ==
        IF i = 0 THEN <<>>
        ELSE IF i \in positions THEN Append(upTo[i - 1], entries[i]) ELSE upTo[i - 1]
  IN upTo[Len(entries)]

\* The directories of up to n of these entries.
TypeListings(n) ==
  {SubSeqAt(TypeEntries, S) :
     S \in {T \in SUBSET (1..Len(TypeEntries)) : Cardinality(T) <= n}}

Init ==
  /\ command \in Commands
  /\ listing \in Listings(MaxEntries)
  /\ dirs = UNION {SubDirsOf(listing[i]) : i \in 1..Len(listing)}
  /\ moved = {}
  /\ pc = "start"
  /\ baseFiles = <<>>
  /\ extPc = <<>>
  /\ doneOrder = <<>>
  /\ files = <<>>
  /\ filesPerTypeAndDate = <<>>
  /\ filesForInformation = <<>>
  /\ mkType = <<>>
  /\ typeIdx = 0
  /\ tasks = <<>>
  /\ renamed = <<>>
  /\ renameFailed = {}
  /\ progress = [state |-> "null", total |-> 0, value |-> 0]
  /\ exit = "running"
  /\ run = 1
  /\ prev = [command |-> "", information |-> <<>>, listing |-> <<>>, moved |-> {}]

\* The start of a run on a directory of files of every kind of type.
InitTypes ==
  /\ command \in Commands
  /\ listing \in TypeListings(MaxTypeEntries)
  /\ dirs = UNION {SubDirsOf(listing[i]) : i \in 1..Len(listing)}
  /\ moved = {}
  /\ pc = "start"
  /\ baseFiles = <<>>
  /\ extPc = <<>>
  /\ doneOrder = <<>>
  /\ files = <<>>
  /\ filesPerTypeAndDate = <<>>
  /\ filesForInformation = <<>>
  /\ mkType = <<>>
  /\ typeIdx = 0
  /\ tasks = <<>>
  /\ renamed = <<>>
  /\ renameFailed = {}
  /\ progress = [state |-> "null", total |-> 0, value |-> 0]
  /\ exit = "running"
  /\ run = 1
  /\ prev = [command |-> "", information |-> <<>>, listing |-> <<>>, moved |-> {}]

\* Variant of Increment: the bar is left as it is.
IncrementNone(bar) == bar
\* tickProgress() / progress.increment()
Increment(bar) ==
  IF bar.state = "null" THEN bar ELSE [bar EXCEPT !.value = @ + 1]

(***************************************************************************)
(* main, lines 75-91: scan, filter, start the bar, launch every            *)
(* getFileInfo (each runs up to its await of fs.promises.stat).            *)
(***************************************************************************)
Scan ==
  /\ exit = "running" /\ pc = "start"
  /\ baseFiles' = ScanOf(listing)
  /\ extPc' = [i \in 1..Len(baseFiles') |-> "stat"]
  /\ renamed' = [p \in {baseFiles'[i] : i \in 1..Len(baseFiles')} |-> 0]
  /\ progress' = [state |-> "started", total |-> Len(baseFiles'), value |-> 0]
  /\ pc' = "extract"
  /\ UNCHANGED <<runVars, command, fsVars, doneOrder, planVars, mkType, typeIdx, tasks,
                 renameFailed, exit>>

\* Variant of PromiseAllState: Promise.allSettled in place of Promise.all.
PromiseAllSettledState(states) ==
  IF \E i \in 1..Len(states) : states[i] = "stat" THEN "pending" ELSE "resolved"
\* The state of Promise.all over the getFileInfo calls: rejected with the
\* first call that rejects, resolved when every call has resolved.
PromiseAllState(states) ==
  IF \E i \in 1..Len(states) : states[i] = "failed" THEN "rejected"
  ELSE IF \A i \in 1..Len(states) : states[i] = "done" THEN "resolved"
  ELSE "pending"

\* getFileInfo(baseFiles[i]) resolves: stat (and, for JPEG and TIFF,
\* readFile and exif.parse) succeeded, the bar is ticked.
GetFileInfoDone(i) ==
  /\ exit = "running" /\ extPc[i] = "stat"
  /\ extPc' = [extPc EXCEPT ![i] = "done"]
  /\ progress' = Increment(progress)
  /\ doneOrder' = IF pc = "extract" THEN Append(doneOrder, i) ELSE doneOrder
  /\ UNCHANGED <<runVars, command, fsVars, pc, baseFiles, planVars, moveVars, exit>>

\* getFileInfo(baseFiles[i]) rejects (stat, readFile or exif.parse failed):
\* Promise.all rejects at the first rejection and main rejects with it.
GetFileInfoFail(i) ==
  /\ exit = "running" /\ extPc[i] = "stat"
  /\ extPc' = [extPc EXCEPT ![i] = "failed"]
  /\ pc' = IF pc = "extract" /\ PromiseAllState(extPc') = "rejected" THEN "rejected" ELSE pc
  /\ doneOrder' = <<>>
  /\ UNCHANGED <<runVars, command, fsVars, baseFiles, planVars, moveVars, progress, exit>>

\* Variant of PromiseAllInfos: the descriptors in the order the calls
\* resolved.
PromiseAllInfosByCompletion(paths, order) ==
  [i \in 1..Len(paths) |-> GetFileInfo(paths[order[i]])]
\* The value of Promise.all: the descriptors, each at the index of its path.
PromiseAllInfos(paths, order) ==
  [i \in 1..Len(paths) |-> GetFileInfo(paths[i])]

\* Variant of IsMove: the test of the command is left out.
IsMoveAlways(cmd) == TRUE
\* 'move' === command
IsMove(cmd) == cmd = "move"

\* Variants of MkdirLaunched: without the test of existsSync, and without
\* the return of the promise of mkdir.
MkdirLaunchedAlways(path) == "inflight"
MkdirLaunchedNotAwaited(path) == "done"
\* createDirectoryIfNotExisting(path), up to its return: nothing to wait for
\* when the path exists, otherwise an mkdir in flight.
MkdirLaunched(path) == IF ExistsSync(path) THEN "done" ELSE "inflight"

(***************************************************************************)
(* main, lines 93-170: when every getFileInfo has resolved, stop the bar,  *)
(* group, reduce, print the table; return 0 without the "move" command,    *)
(* otherwise launch the creation of every type directory.                  *)
(***************************************************************************)
GroupAndPlan ==
  /\ exit = "running" /\ pc = "extract"
  /\ PromiseAllState(extPc) = "resolved"
  /\ files' = GroupFiles(PromiseAllInfos(baseFiles, doneOrder))
  /\ filesPerTypeAndDate' = ListingOf(files', Len(files'))
  /\ filesForInformation' = InformationOf(files', Len(files'))
  /\ progress' = [progress EXCEPT !.state = "stopped"]
  /\ IF IsMove(command)
     THEN /\ pc' = "mkdirTypes"
          /\ mkType' = [k \in 1..Len(filesPerTypeAndDate') |->
                          MkdirLaunched(DirType(filesPerTypeAndDate'[k].type))]
     ELSE /\ pc' = "returned"
          /\ mkType' = mkType
  /\ UNCHANGED <<runVars, command, fsVars, baseFiles, extPc, doneOrder, typeIdx, tasks,
                 renamed, renameFailed, exit>>

\* fs.promises.mkdir of the k-th type directory succeeds.
MkdirTypeDone(k) ==
  /\ exit = "running" /\ mkType[k] = "inflight"
  /\ ~ ExistsSync(DirType(filesPerTypeAndDate[k].type))
  /\ dirs' = dirs \cup {DirType(filesPerTypeAndDate[k].type)}
  /\ listing' = Append(listing, TypeDirName(filesPerTypeAndDate[k].type))
  /\ mkType' = [mkType EXCEPT ![k] = "done"]
  /\ doneOrder' = <<>>
  /\ UNCHANGED <<runVars, command, moved, pc, baseFiles, extPc, planVars,
                 typeIdx, tasks, renamed, renameFailed, progress, exit>>

\* fs.promises.mkdir of the k-th type directory fails: main rejects.
MkdirTypeFail(k) ==
  /\ exit = "running" /\ mkType[k] = "inflight"
  /\ mkType' = [mkType EXCEPT ![k] = "failed"]
  /\ pc' = IF pc = "mkdirTypes" THEN "rejected" ELSE pc
  /\ doneOrder' = <<>>
  /\ UNCHANGED <<runVars, command, fsVars, baseFiles, extPc, planVars,
                 typeIdx, tasks, renamed, renameFailed, progress, exit>>

\* Variant of LaunchTasks: createDirectoryIfNotExisting is not awaited.
LaunchTasksNoAwait(k) ==
  [d \in 1..Len(filesPerTypeAndDate[k].dates) |-> [pc |-> "rename", idx |-> 1]]
\* The per-date tasks of the k-th type, each run up to its first pending
\* operation: the mkdir of its date directory, or, when that directory
\* exists, the rename of its first file.
LaunchTasks(k) ==
  [d \in 1..Len(filesPerTypeAndDate[k].dates) |->
     IF ExistsSync(DirDate(filesPerTypeAndDate[k].type,
                           filesPerTypeAndDate[k].dates[d].date))
     THEN [pc |-> "rename", idx |-> 1]
     ELSE [pc |-> "mkdir", idx |-> 0]]

\* main, lines 172-179: every type directory is there; restart the bar and
\* enter the move loop.
StartMoving ==
  /\ exit = "running" /\ pc = "mkdirTypes"
  /\ \A k \in 1..Len(mkType) : mkType[k] = "done"
  /\ IF filesPerTypeAndDate = <<>>
     THEN /\ pc' = "returned"
          /\ progress' = [state |-> "stopped", total |-> Len(filesForInformation),
                          value |-> 0]
          /\ UNCHANGED <<typeIdx, tasks>>
     ELSE /\ pc' = "moving"
          /\ progress' = [state |-> "started", total |-> Len(filesForInformation),
                          value |-> 0]
          /\ typeIdx' = 1
          /\ tasks' = LaunchTasks(1)
  /\ doneOrder' = <<>>
  /\ UNCHANGED <<runVars, command, fsVars, baseFiles, extPc, planVars, mkType,
                 renamed, renameFailed, exit>>

\* The directory and the file the d-th task is at.
TaskDir(d) ==
  DirDate(filesPerTypeAndDate[typeIdx].type, filesPerTypeAndDate[typeIdx].dates[d].date)
TaskFiles(d) == filesPerTypeAndDate[typeIdx].dates[d].fileInfos
TaskFile(d) == TaskFiles(d)[tasks[d].idx]

\* Variant of RenameTarget: the group name in place of the base name.
RenameTargetByName(dirDate, fileInfo) == Join(dirDate, fileInfo.name)
\* The destination of a rename: path.join(dirDate, fileInfo.basename).
RenameTarget(dirDate, fileInfo) == Join(dirDate, fileInfo.basename)

\* The mkdir of the date directory of the d-th task succeeds; the task goes
\* on to rename its first file.
TaskMkdirDone(d) ==
  /\ exit = "running" /\ tasks[d].pc = "mkdir"
  /\ DirType(filesPerTypeAndDate[typeIdx].type) \in dirs
  /\ ~ ExistsSync(TaskDir(d))
  /\ dirs' = dirs \cup {TaskDir(d)}
  /\ tasks' = [tasks EXCEPT ![d] = [pc |-> "rename", idx |-> 1]]
  /\ UNCHANGED <<runVars, command, listing, moved, pc, baseFiles, extPc, doneOrder, planVars,
                 mkType, typeIdx, renamed, renameFailed, progress, exit>>

\* The mkdir of the date directory fails: the task rejects, and main with it.
TaskMkdirFail(d) ==
  /\ exit = "running" /\ tasks[d].pc = "mkdir"
  /\ tasks' = [tasks EXCEPT ![d].pc = "failed"]
  /\ pc' = IF pc = "moving" THEN "rejected" ELSE pc
  /\ UNCHANGED <<runVars, command, fsVars, baseFiles, extPc, doneOrder, planVars,
                 mkType, typeIdx, renamed, renameFailed, progress, exit>>

\* The rename in flight in the d-th task succeeds: the file leaves the
\* working directory, the bar is incremented, and the task goes on to its
\* next file or ends.
RenameDone(d) ==
  /\ exit = "running" /\ tasks[d].pc = "rename"
  /\ ExistsSync(TaskFile(d).path)
  /\ listing' = SelectSeq(listing, LAMBDA n : Join(CWD, n) # TaskFile(d).path)
  /\ moved' = moved \cup {RenameTarget(TaskDir(d), TaskFile(d))}
  /\ renamed' = [renamed EXCEPT ![TaskFile(d).path] = @ + 1]
  /\ progress' = Increment(progress)
  /\ tasks' = IF tasks[d].idx < Len(TaskFiles(d))
              THEN [tasks EXCEPT ![d].idx = @ + 1]
              ELSE [tasks EXCEPT ![d].pc = "done"]
  /\ UNCHANGED <<runVars, command, dirs, pc, baseFiles, extPc, doneOrder, planVars,
                 mkType, typeIdx, renameFailed, exit>>

\* The rename in flight in the d-th task fails: the task rejects at its
\* await, and main with it.
RenameFail(d) ==
  /\ exit = "running" /\ tasks[d].pc = "rename"
  /\ renameFailed' = renameFailed \cup {TaskFile(d).path}
  /\ tasks' = [tasks EXCEPT ![d].pc = "failed"]
  /\ pc' = IF pc = "moving" THEN "rejected" ELSE pc
  /\ UNCHANGED <<runVars, command, fsVars, baseFiles, extPc, doneOrder, planVars,
                 mkType, typeIdx, renamed, progress, exit>>

\* main, lines 176-195: every task of the type has ended; go on to the next
\* type, or stop the bar and return 0.
NextType ==
  /\ exit = "running" /\ pc = "moving"
  /\ \A d \in 1..Len(tasks) : tasks[d].pc = "done"
  /\ IF typeIdx < Len(filesPerTypeAndDate)
     THEN /\ typeIdx' = typeIdx + 1
          /\ tasks' = LaunchTasks(typeIdx + 1)
          /\ UNCHANGED <<pc, progress>>
     ELSE /\ pc' = "returned"
          /\ progress' = [progress EXCEPT !.state = "stopped"]
          /\ UNCHANGED <<typeIdx, tasks>>
  /\ UNCHANGED <<runVars, command, fsVars, baseFiles, extPc, doneOrder, planVars, mkType,
                 renamed, renameFailed, exit>>

(***************************************************************************)
(* The end of the process (lines 198-201).                                 *)
(***************************************************************************)
InFlight ==
  \/ \E i \in 1..Len(extPc) : extPc[i] = "stat"
  \/ \E k \in 1..Len(mkType) : mkType[k] = "inflight"
  \/ \E d \in 1..Len(tasks) : tasks[d].pc \in {"mkdir", "rename"}

\* main resolved: process.exit(code || 0).
ProcessExit ==
  /\ exit = "running" /\ pc = "returned"
  /\ exit' = "0"
  /\ doneOrder' = <<>>
  /\ UNCHANGED <<runVars, command, fsVars, pc, baseFiles, extPc, planVars,
                 moveVars, progress>>

\* main rejected and nothing handles the rejection.  A runtime that throws
\* on unhandled rejections ends the process at once with code 1, whatever
\* is still in flight.
UnhandledRejectionExit ==
  /\ exit = "running" /\ pc = "rejected"
  /\ exit' = "1"
  /\ UNCHANGED <<runVars, command, fsVars, pc, baseFiles, extPc, doneOrder, planVars,
                 moveVars, progress>>

\* A runtime that only warns about the rejection runs what is in flight to
\* its end and exits with code 0 when nothing is left.
DrainedExit ==
  /\ exit = "running" /\ pc = "rejected" /\ ~ InFlight
  /\ exit' = "0"
  /\ UNCHANGED <<runVars, command, fsVars, pc, baseFiles, extPc, doneOrder, planVars,
                 moveVars, progress>>

\* The program is run again on the same working directory, after a run
\* that ended with code 0.
Rerun ==
  /\ exit = "0" /\ pc = "returned" /\ run < MaxRuns
  /\ run' = run + 1
  /\ prev' = [command |-> command, information |-> filesForInformation,
              listing |-> filesPerTypeAndDate, moved |-> moved]
  /\ command' \in Commands
  /\ pc' = "start"
  /\ baseFiles' = <<>>
  /\ extPc' = <<>>
  /\ doneOrder' = <<>>
  /\ files' = <<>>
  /\ filesPerTypeAndDate' = <<>>
  /\ filesForInformation' = <<>>
  /\ mkType' = <<>>
  /\ typeIdx' = 0
  /\ tasks' = <<>>
  /\ renamed' = <<>>
  /\ renameFailed' = {}
  /\ progress' = [state |-> "null", total |-> 0, value |-> 0]
  /\ exit' = "running"
  /\ UNCHANGED fsVars

Next ==
  \/ Scan
  \/ \E i \in 1..Len(extPc) : GetFileInfoDone(i)
  \/ \E i \in 1..Len(extPc) : GetFileInfoFail(i)
  \/ GroupAndPlan
  \/ \E k \in 1..Len(mkType) : MkdirTypeDone(k)
  \/ \E k \in 1..Len(mkType) : MkdirTypeFail(k)
  \/ StartMoving
  \/ \E d \in 1..Len(tasks) : TaskMkdirDone(d)
  \/ \E d \in 1..Len(tasks) : TaskMkdirFail(d)
  \/ \E d \in 1..Len(tasks) : RenameDone(d)
  \/ \E d \in 1..Len(tasks) : RenameFail(d)
  \/ NextType
  \/ ProcessExit
  \/ UnhandledRejectionExit
  \/ DrainedExit
  \/ Rerun

Spec == Init /\ [][Next]_vars

\* The same program on the directories of TypeListings.
SpecTypes == InitTypes /\ [][Next]_vars

(***************************************************************************)
(* Vocabulary of the properties, stated from the documentation and not     *)
(* from the operators above.                                               *)
(***************************************************************************)
\* The set of the elements of a sequence.
Range(seq) == {seq[i] : i \in 1..Len(seq)}

\* The text of a name before its first dot, the whole name without a dot.
BeforeFirstDot(name) ==
  IF \E i \in 1..Len(name) : name[i] = "."
  THEN SubSeq(name, 1, (CHOOSE i \in 1..Len(name) :
                          /\ name[i] = "."
                          /\ \A j \in 1..(i - 1) : name[j] # ".") - 1)
  ELSE name

\* The descriptors of the members of all groups.
Members == UNION {Range(files[k].fileInfos) : k \in 1..Len(files)}

\* The planned files: [type, date, fileInfo] for every entry of
\* filesPerTypeAndDate.
Planned ==
  UNION {UNION {{[type |-> filesPerTypeAndDate[k].type,
                  date |-> filesPerTypeAndDate[k].dates[d].date,
                  fileInfo |-> f] : f \in Range(filesPerTypeAndDate[k].dates[d].fileInfos)}
                : d \in 1..Len(filesPerTypeAndDate[k].dates)}
         : k \in 1..Len(filesPerTypeAndDate)}

\* The scan-order positions of the eligible files of a group key.
PositionsOfKey(key) ==
  {i \in 1..Len(baseFiles) : BeforeFirstDot(Basename(baseFiles[i])) = key}

\* The grouping and the table of the run are there.
Grouped == pc \in {"mkdirTypes", "moving", "returned"} \/ (pc = "rejected" /\ files # <<>>)

\* The effective date of an eligible file: its capture time, else its mtime.
EffectiveOf(path) ==
  IF GetFileInfo(path).takenAt # NullDate
  THEN GetFileInfo(path).takenAt
  ELSE GetFileInfo(path).modifiedAt

\* The calendar date YYYY-MM-DD of a time.
CalendarDate(h) ==
  LET c == Civil(DayOf(h))
  IN Pad4(c.year) \o <<"-">> \o Pad2(c.month) \o <<"-">> \o Pad2(c.day)

\* C1: every table row carries the calendar date of the chronologically
\* earliest effective date (capture time, else modification time) among the
\* files of its group.
C1_EarliestDate ==
  \A r \in Range(filesForInformation) :
    LET pos == PositionsOfKey(BeforeFirstDot(r.File))
        earliest == CHOOSE h \in {EffectiveOf(baseFiles[i]) : i \in pos} :
                      \A i \in pos : h <= EffectiveOf(baseFiles[i])
    IN r.Date = CalendarDate(earliest)

\* C2: every table row carries the coarse type of the first file of its
\* group, in scan order, whose type is image, audio or video, and "other"
\* when the group has no such file.
C2_FirstMediaType ==
  \A r \in Range(filesForInformation) :
    LET pos == PositionsOfKey(BeforeFirstDot(r.File))
        media == {i \in pos : GetFileInfo(baseFiles[i]).type \in {Image, Audio, Video}}
        first == CHOOSE i \in media : \A j \in media : i <= j
    IN r.Class = IF media = {} THEN Other ELSE GetFileInfo(baseFiles[first]).type

\* C2 witness: files of types other, video, image found in that order in
\* one group, resolved to video.
C2_Witness ==
  /\ baseFiles = <<Join(CWD, N_raw), Join(CWD, N_mp4), Join(CWD, N_jpg)>>
  /\ Len(filesForInformation) = 3
  /\ \A r \in Range(filesForInformation) : r.Class = Video

\* C4: the name of every group is the text before the first dot of the base
\* name of each of its members, no two groups have the same name, and every
\* eligible file is a member of the group named so; files that differ only
\* after the first dot share a group and files that differ before it do not.
C4_GroupKey ==
  /\ \A k \in 1..Len(files) : \A f \in Range(files[k].fileInfos) :
       files[k].name = BeforeFirstDot(f.basename)
  /\ \A k1, k2 \in 1..Len(files) : files[k1].name = files[k2].name => k1 = k2
  /\ Grouped => \A i \in 1..Len(baseFiles) : \E f \in Members : f.path = baseFiles[i]

\* C4 witness: DSC0001.edited.jpg, DSC0001.mp4 and DSC0001 in one group.
C4_Witness ==
  /\ Len(files) = 1
  /\ files[1].name = DSC1
  /\ {f.basename : f \in Range(files[1].fileInfos)} = {N_jpg, N_mp4, N_raw}

\* An entry the scan has to leave out, by its name or by being a directory.
Ignorable(name) ==
  \/ name = N_dsstore
  \/ Len(name) >= 2 /\ name[1] = "." /\ name[2] = "_"
  \/ Join(CWD, name) \in dirs

\* The renames in flight: [from, to].
RenamesInFlight ==
  {[from |-> TaskFile(d).path, to |-> RenameTarget(TaskDir(d), TaskFile(d))] :
     d \in {e \in 1..Len(tasks) : tasks[e].pc = "rename"}}

\* C7: a directory, .DS_Store or a name starting with "._" is in no stage of
\* any run: it has no descriptor, is in no group, in no row of the table, in
\* no plan entry, is never renamed, and stays in the working directory.
C7_IgnoredExcluded ==
  /\ \A n \in Range(listing) : Ignorable(n) =>
       /\ Join(CWD, n) \notin Range(baseFiles)
       /\ \A f \in Members : f.basename # n
       /\ \A r \in Range(filesForInformation) : r.File # n
       /\ \A e \in Planned : e.fileInfo.basename # n
       /\ \A m \in RenamesInFlight : m.from # Join(CWD, n)
  /\ \A p \in moved : Basename(p) # N_dsstore /\ Substring0(Basename(p), 2) # <<".", "_">>
  /\ \A p \in Range(baseFiles) : renamed[p] > 0 => ~ Ignorable(Basename(p))

\* C7 witness: a move-mode run has moved a file while .DS_Store and a "._"
\* file stay where they were.
C7_Witness ==
  /\ command = "move" /\ pc = "returned"
  /\ moved # {}
  /\ {N_dsstore, N_appledouble} \subseteq Range(listing)

\* The destination directory the table gives a file: <CWD>/<TypeDirName>/<date>.
DirOfRow(r) ==
  <<CWD[1],
    CASE r.Class = Image -> <<"I", "m", "a", "g", "e">>
      [] r.Class = Video -> <<"V", "i", "d", "e", "o">>
      [] r.Class = Audio -> <<"A", "u", "d", "i", "o">>
      [] r.Class = Other -> <<"O", "t", "h", "e", "r">>,
    r.Date>>

\* The row of the table of a base name.
RowOf(basename) == CHOOSE r \in Range(filesForInformation) : r.File = basename

\* C3: the files of one group key have one type and one date in the table,
\* every eligible file has exactly one row and one plan entry, under the
\* type and date of its row, and every rename, in flight or done, goes from
\* the file to <CWD>/<TypeDirName>/<date>/<base name> of that row.
C3_GroupAtomicity ==
  /\ \A r1, r2 \in Range(filesForInformation) :
       BeforeFirstDot(r1.File) = BeforeFirstDot(r2.File)
         => r1.Class = r2.Class /\ r1.Date = r2.Date
  /\ Grouped =>
       /\ Len(filesForInformation) = Len(baseFiles)
       /\ Cardinality(Planned) = Len(baseFiles)
       /\ \A i \in 1..Len(baseFiles) :
            \E r \in Range(filesForInformation) : r.File = Basename(baseFiles[i])
  /\ \A e \in Planned :
       /\ e.fileInfo.path \in Range(baseFiles)
       /\ e.type = RowOf(e.fileInfo.basename).Class
       /\ e.date = RowOf(e.fileInfo.basename).Date
  /\ \A m \in RenamesInFlight :
       m.to = Append(DirOfRow(RowOf(Basename(m.from))), Basename(m.from))
  /\ \A p \in moved \ prev.moved : \E r \in Range(filesForInformation) :
       p = Append(DirOfRow(r), r.File)
  /\ \A p \in Range(baseFiles) : renamed[p] > 0 =>
       Append(DirOfRow(RowOf(Basename(p))), Basename(p)) \in moved

\* C3 witness: the two files of a group have been moved into one directory.
C3_Witness ==
  /\ command = "move" /\ pc = "returned"
  /\ Join(CWD, N_jpg) \in Range(baseFiles) /\ Join(CWD, N_raw) \in Range(baseFiles)
  /\ \E dir \in dirs : Join(dir, N_jpg) \in moved /\ Join(dir, N_raw) \in moved

\* C5, the state part: a preview run right after a preview run has the same
\* table and the same plan.
C5_SamePlan ==
  (run > 1 /\ prev.command # "move" /\ command # "move" /\ pc = "returned")
    => /\ filesForInformation = prev.information
       /\ filesPerTypeAndDate = prev.listing

\* C5: a run without the "move" command leaves the working directory, the
\* directories and the moved files as they are, and two such runs in a row
\* print the same plan.
C5_PreviewNoMutation ==
  /\ [][command # "move" => UNCHANGED <<listing, dirs, moved>>]_vars
  /\ []C5_SamePlan

\* C5 witness: the second of two preview runs has returned with a plan of
\* two files or more.
C5_Witness ==
  /\ run = 2 /\ prev.command = "" /\ command = "" /\ pc = "returned"
  /\ Len(filesForInformation) >= 2

\* C6: when a move-mode run has returned, every file that was eligible has
\* been renamed exactly once, is gone from the working directory and is at
\* <CWD>/<TypeDirName>/<date>/<base name>; the scan of the run after it
\* finds no eligible file.
C6_NothingLeft ==
  /\ (command = "move" /\ pc = "returned") =>
       /\ \A p \in Range(baseFiles) :
            /\ renamed[p] = 1
            /\ Basename(p) \notin Range(listing)
            /\ Append(DirOfRow(RowOf(Basename(p))), Basename(p)) \in moved
       /\ \A n \in Range(listing) : Ignorable(n)
  /\ (run > 1 /\ prev.command = "move" /\ pc # "start") => baseFiles = <<>>

\* C6 witness: the scan of the run after a move-mode run that moved two
\* files or more has been made, with ignored entries left to scan.
C6_Witness ==
  /\ run = 2 /\ prev.command = "move" /\ pc = "extract"
  /\ Len(prev.information) >= 2
  /\ Cardinality(moved) >= 2
  /\ N_dsstore \in Range(listing)

\* A rename has been issued in this run.
RenameIssued ==
  \/ RenamesInFlight # {}
  \/ renameFailed # {}
  \/ \E p \in Range(baseFiles) : renamed[p] > 0

\* The destination directories of the plan.
PlanTypeDirs == {Join(CWD, DirOfRow(r)[2]) : r \in Range(filesForInformation)}
PlanDateDirs == {DirOfRow(r) : r \in Range(filesForInformation)}

\* C8 as stated: once a rename has been issued, every type directory and
\* every date directory of the plan exists.
C8_AllDirsBeforeRename ==
  RenameIssued => PlanTypeDirs \cup PlanDateDirs \subseteq dirs

\* C8, amended: once a rename has been issued, every type directory of the
\* plan exists, and the date directory a rename in flight targets exists.
C8_OwnDirBeforeRename ==
  RenameIssued =>
    /\ PlanTypeDirs \subseteq dirs
    /\ \A m \in RenamesInFlight : SubSeq(m.to, 1, Len(m.to) - 1) \in dirs

\* C8 witness: a rename is in flight while a date directory of the plan is
\* not created yet.
C8_Witness ==
  /\ RenamesInFlight # {}
  /\ ~ (PlanDateDirs \subseteq dirs)

\* The extraction and the creation of the directories met no failure.
OnlyRenamesFailed ==
  /\ \A i \in 1..Len(extPc) : extPc[i] = "done"
  /\ \A k \in 1..Len(mkType) : mkType[k] = "done"
  /\ \A d \in 1..Len(tasks) : tasks[d].pc = "failed" => tasks[d].idx >= 1

\* C9 as stated: when a move-mode run in which only renames failed has
\* ended with nothing left in flight, a rename of every planned file has
\* been attempted.
C9_AllAttempted ==
  (command = "move" /\ exit # "running" /\ ~ InFlight /\ Grouped /\ OnlyRenamesFailed)
    => \A p \in Range(baseFiles) : renamed[p] > 0 \/ p \in renameFailed

\* The destination path of every planned file.
PlannedTarget(e) == RenameTarget(DirDate(e.type, e.date), e.fileInfo)

\* C10: the planned files have pairwise distinct destination paths, and no
\* rename in flight targets the path of another rename of the run, in
\* flight or done.
C10_DistinctTargets ==
  /\ \A e1, e2 \in Planned : PlannedTarget(e1) = PlannedTarget(e2) => e1 = e2
  /\ \A m1, m2 \in RenamesInFlight : m1.to = m2.to => m1 = m2
  /\ \A m \in RenamesInFlight : m.to \notin moved

\* C10 witness: two renames are in flight at once and a third file of the
\* plan has been moved.
C10_Witness ==
  /\ Cardinality(RenamesInFlight) >= 2
  /\ moved # {}

\* C11 as stated: the name of every group and the base name of every member
\* are non-empty strings, and no two members of the run have the same path.
C11_NonEmptyKeys ==
  /\ \A k \in 1..Len(files) :
       /\ files[k].name # <<>>
       /\ \A j \in 1..Len(files[k].fileInfos) :
            /\ files[k].fileInfos[j].name # <<>>
            /\ files[k].fileInfos[j].basename # <<>>
  /\ \A k1, k2 \in 1..Len(files) :
       \A j1 \in 1..Len(files[k1].fileInfos), j2 \in 1..Len(files[k2].fileInfos) :
         files[k1].fileInfos[j1].path = files[k2].fileInfos[j2].path
           => k1 = k2 /\ j1 = j2

\* The positions of the members in the groups, <<group, index>>, and of the
\* planned files in the plan, <<type, date, index>>.
MemberPositions ==
  UNION {{<<k, j>> : j \in 1..Len(files[k].fileInfos)} : k \in 1..Len(files)}
PlanPositions ==
  UNION {UNION {{<<k, d, j>> : j \in 1..Len(filesPerTypeAndDate[k].dates[d].fileInfos)}
                : d \in 1..Len(filesPerTypeAndDate[k].dates)}
         : k \in 1..Len(filesPerTypeAndDate)}
MemberAt(pos) == files[pos[1]].fileInfos[pos[2]]
PlannedAt(pos) == filesPerTypeAndDate[pos[1]].dates[pos[2]].fileInfos[pos[3]]

ScanPos(path) == CHOOSE i \in 1..Len(baseFiles) : baseFiles[i] = path

\* C14: the members of every group are in the order the scan found their
\* files, whatever the order the extractions completed in, and so are the
\* files of one group in the plan and in the table.
C14_ScanOrder ==
  /\ \A k \in 1..Len(files) :
       [j \in 1..Len(files[k].fileInfos) |-> files[k].fileInfos[j].path]
         = SelectSeq(baseFiles, LAMBDA p : BeforeFirstDot(Basename(p)) = files[k].name)
  /\ \A p1, p2 \in PlanPositions :
       (/\ p1[1] = p2[1] /\ p1[2] = p2[2] /\ p1[3] < p2[3]
        /\ PlannedAt(p1).name = PlannedAt(p2).name)
         => ScanPos(PlannedAt(p1).path) < ScanPos(PlannedAt(p2).path)
  /\ \A r1, r2 \in 1..Len(filesForInformation) :
       (/\ r1 < r2
        /\ BeforeFirstDot(filesForInformation[r1].File)
             = BeforeFirstDot(filesForInformation[r2].File))
         => ScanPos(Join(CWD, filesForInformation[r1].File))
              < ScanPos(Join(CWD, filesForInformation[r2].File))

\* C14 witness: DSC0001.mp4 was found before DSC0001.edited.jpg and its
\* extraction completed after; the group has them in the order found and
\* is a video.
C14_Witness ==
  /\ baseFiles = <<Join(CWD, N_mp4), Join(CWD, N_jpg)>>
  /\ doneOrder = <<2, 1>>
  /\ Len(files) = 1
  /\ files[1].fileInfos[1].basename = N_mp4
  /\ \A r \in Range(filesForInformation) : r.Class = Video

\* C13 as stated: the extraction stage has ended, with success or with
\* failure, only when no extraction is in flight any more, and the groups
\* are made only when every extraction has completed.
C13_StageWaitsForAll ==
  /\ pc \notin {"start", "extract"} => \A i \in 1..Len(extPc) : extPc[i] # "stat"
  /\ Grouped => \A i \in 1..Len(extPc) : extPc[i] = "done"

\* The names of the four type directories.
TypeDirNames == {<<"I", "m", "a", "g", "e">>, <<"V", "i", "d", "e", "o">>,
                 <<"A", "u", "d", "i", "o">>, <<"O", "t", "h", "e", "r">>}

\* A name of the form YYYY-MM-DD.
IsDateName(name) ==
  /\ Len(name) = 10
  /\ name[5] = "-" /\ name[8] = "-"
  /\ \A i \in {1, 2, 3, 4, 6, 7, 9, 10} : name[i] \in Range(Digits)

\* C15: every resolved type, in the table and in the plan, is image, video,
\* audio or other, whatever the types of the members; the directories below
\* the working directory are at most four, named Image, Video, Audio and
\* Other, each holds only directories named by a date, and every moved file
\* is in one of those.
C15_FourTypes ==
  /\ \A r \in Range(filesForInformation) : r.Class \in {Image, Video, Audio, Other}
  /\ \A k \in 1..Len(filesPerTypeAndDate) :
       filesPerTypeAndDate[k].type \in {Image, Video, Audio, Other}
  /\ \A p \in dirs :
       /\ Len(p) \in {2, 3}
       /\ p[1] = CWD[1]
       /\ p[2] \in TypeDirNames
       /\ Len(p) = 3 => IsDateName(p[3]) /\ SubSeq(p, 1, 2) \in dirs
  /\ Cardinality({p \in dirs : Len(p) = 2}) <= 4
  /\ \A p \in moved : Len(p) = 4 /\ SubSeq(p, 1, 3) \in dirs

\* C15 witness: a move run has returned on DSC0001.edited.jpg, .clip.mp4,
\* DSC0001.txt and scan.pdf; the text file went with its group to Image,
\* the application file to Other, and there are three type directories.
C15_Witness ==
  /\ command = "move" /\ pc = "returned"
  /\ baseFiles = <<Join(CWD, N_jpg), Join(CWD, N_clip), Join(CWD, N_txt), Join(CWD, N_pdf)>>
  /\ RowOf(N_txt).Class = Image /\ RowOf(N_pdf).Class = Other
  /\ {p[2] : p \in {q \in dirs : Len(q) = 2}}
       = {<<"I", "m", "a", "g", "e">>, <<"V", "i", "d", "e", "o">>,
          <<"O", "t", "h", "e", "r">>}
  /\ Cardinality(moved) = 4

\* C16: a creation request is in flight, or has failed, only for a
\* directory that was not there when it was made; no two requests in
\* flight are for the same path.
C16_IdempotentMkdir ==
  /\ \A k \in 1..Len(mkType) :
       mkType[k] \in {"inflight", "failed"}
         => DirType(filesPerTypeAndDate[k].type) \notin dirs
  /\ \A d \in 1..Len(tasks) :
       (tasks[d].pc = "mkdir" \/ (tasks[d].pc = "failed" /\ tasks[d].idx = 0))
         => TaskDir(d) \notin dirs
  /\ \A k1, k2 \in 1..Len(mkType) :
       (/\ mkType[k1] = "inflight" /\ mkType[k2] = "inflight"
        /\ DirType(filesPerTypeAndDate[k1].type) = DirType(filesPerTypeAndDate[k2].type))
         => k1 = k2
  /\ \A d1, d2 \in 1..Len(tasks) :
       (tasks[d1].pc = "mkdir" /\ tasks[d2].pc = "mkdir" /\ TaskDir(d1) = TaskDir(d2))
         => d1 = d2

\* C16 witness: a move run on DSC0001.mp4 has returned where Video and
\* Video/2023-04-20 were there before it: no directory was created and the
\* file is in Video/2023-04-20.
C16_Witness ==
  /\ command = "move" /\ pc = "returned" /\ run = 1
  /\ baseFiles = <<Join(CWD, N_mp4)>>
  /\ N_videodir \in Range(listing)
  /\ mkType = <<"done">>
  /\ Cardinality(dirs) = 2
  /\ Cardinality(moved) = 1

\* C17 as stated: the process ends with code 0 only when main returned and
\* no extraction, directory creation or rename of the run failed.
C17_FailureNonZero ==
  exit = "0" =>
    /\ pc = "returned"
    /\ \A i \in 1..Len(extPc) : extPc[i] # "failed"
    /\ \A k \in 1..Len(mkType) : mkType[k] # "failed"
    /\ \A d \in 1..Len(tasks) : tasks[d].pc # "failed"

\* C18: a per-date task is started only when every type directory of the
\* plan is created; a task is at a rename, or past its renames, only when
\* its date directory is there; every file moved by the run is in a date
\* directory inside a type directory that are both there.
C18_DirsBeforeRename ==
  /\ tasks # <<>> =>
       /\ \A k \in 1..Len(mkType) : mkType[k] = "done"
       /\ \A k \in 1..Len(filesPerTypeAndDate) :
            Join(CWD, TypeDirName(filesPerTypeAndDate[k].type)) \in dirs
  /\ \A d \in 1..Len(tasks) :
       (tasks[d].pc \in {"rename", "done"} \/ (tasks[d].pc = "failed" /\ tasks[d].idx >= 1))
         => /\ TaskDir(d) \in dirs
            /\ SubSeq(TaskDir(d), 1, Len(TaskDir(d)) - 1) \in dirs
  /\ \A p \in moved \ prev.moved :
       /\ SubSeq(p, 1, Len(p) - 1) \in dirs
       /\ SubSeq(p, 1, Len(p) - 2) \in dirs

\* C18 witness: a task is at the rename of its second file, in directories
\* this run created.
C18_Witness ==
  /\ N_videodir \notin Range(listing) /\ run = 1
  /\ \E d \in 1..Len(tasks) : tasks[d].pc = "rename" /\ tasks[d].idx = 2
  /\ Cardinality(dirs) >= 2

\* C19: when an extraction of the run has failed, no group is made, no
\* creation of a directory is requested and no rename is issued in that
\* run, with the "move" command or without.
C19_NoMoveAfterFailedExtraction ==
  (\E i \in 1..Len(extPc) : extPc[i] = "failed") =>
    /\ pc = "rejected"
    /\ files = <<>> /\ filesPerTypeAndDate = <<>>
    /\ mkType = <<>> /\ tasks = <<>> /\ typeIdx = 0
    /\ \A p \in Range(baseFiles) : renamed[p] = 0
    /\ renameFailed = {}
    /\ moved = prev.moved

\* C19 witness: in a move run of three files one extraction has failed,
\* the two others have completed, and the process has ended.
C19_Witness ==
  /\ command = "move" /\ exit # "running"
  /\ Len(extPc) = 3
  /\ Cardinality({i \in 1..Len(extPc) : extPc[i] = "failed"}) = 1
  /\ Cardinality({i \in 1..Len(extPc) : extPc[i] = "done"}) = 2

\* The number of files renamed with success in the run.
RenamedCount == Cardinality({p \in DOMAIN renamed : renamed[p] > 0})

\* C20: up to the move loop the value of the bar is the number of
\* extractions that completed, in the move loop it is the number of files
\* renamed with success, each at most once; when a move run has returned it
\* is the number of planned files, which is the number of eligible files.
C20_ProgressCounts ==
  /\ pc = "start" => progress.value = 0
  /\ (pc # "start" /\ typeIdx = 0) =>
       progress.value = Cardinality({i \in 1..Len(extPc) : extPc[i] = "done"})
  /\ typeIdx >= 1 =>
       /\ progress.value = RenamedCount
       /\ \A p \in DOMAIN renamed : renamed[p] <= 1
  /\ (command = "move" /\ pc = "returned") =>
       /\ progress.value = Len(filesForInformation)
       /\ progress.value = Len(baseFiles)
       /\ progress.total = Len(baseFiles)

\* C20 witness: a move run of three files has returned with the bar
\* stopped at three.
C20_Witness ==
  /\ command = "move" /\ pc = "returned"
  /\ Len(baseFiles) = 3 /\ progress.value = 3
  /\ progress.state = "stopped"

====
